---------------------------- MODULE Spec2Model ----------------------------
(***************************************************************************)
(* Model of the ICPC management system of src/main.cpp: the class          *)
(* ICPCManagement with its teams, per-problem statuses, submission logs,   *)
(* the standings comparator and the freeze / scroll machinery.             *)
(*                                                                         *)
(* One action per public method.  scroll_scoreboard contains a loop; its   *)
(* prologue, one loop iteration and its epilogue are the three actions     *)
(* ScrollBegin, ScrollReveal and ScrollFinish, sequenced by pc.  The       *)
(* program is single threaded, so no other command runs while pc is        *)
(* "scroll".                                                               *)
(***************************************************************************)
EXTENDS Integers, Sequences, FiniteSets, TLC

(***************************************************************************)
(* Bounds of the model.                                                    *)
(***************************************************************************)
MaxTeams == 3
MaxProblems == 2
MaxSubs == 2
MaxTime == 2

(***************************************************************************)
(* Bounds of the specification that exercises the comparator.              *)
(***************************************************************************)
CmpTeams == 3
CmpProblems == 2
CmpMaxTime == 3
CmpMaxWrong == 1

(***************************************************************************)
(* Bound of the specification with the query commands.                     *)
(***************************************************************************)
QryTeams == 2

(***************************************************************************)
(* Team names are std::string values, modelled as sequences of character   *)
(* codes.  AllNames lists the names the commands may mention; the first    *)
(* MaxTeams of them are used.                                              *)
(***************************************************************************)
AllNames == << <<97>>, <<97, 98>>, <<98>>, <<98, 97>> >>

Names == {AllNames[k] : k \in 1..MaxTeams}

Statuses == {"Accepted", "Wrong_Answer"}

Times == 1..MaxTime

VARIABLES
    teams,                 \* name -> Team (unordered_map<string, Team*>)
    team_list,             \* names in registration order (vector<Team*>)
    competition_started,
    competition_ended,
    problem_count,
    is_frozen,
    scoreboard_flushed,
    last_flushed_ranking,  \* names in the order of the set at the last flush
    pc,                    \* "idle", or "scroll" inside scroll_scoreboard's loop
    current_ranking,       \* scroll_scoreboard's local current_ranking
    changes,               \* scroll_scoreboard's local changes
    out                    \* the lines the last command wrote to cout if it
                           \* was a query, << >> after any other command

\* The members of ICPCManagement and the locals of scroll_scoreboard.
contest == << teams, team_list, competition_started, competition_ended,
              problem_count, is_frozen, scoreboard_flushed,
              last_flushed_ranking, pc, current_ranking, changes >>

vars == << teams, team_list, competition_started, competition_ended,
           problem_count, is_frozen, scoreboard_flushed,
           last_flushed_ranking, pc, current_ranking, changes, out >>

-----------------------------------------------------------------------------
(***************************************************************************)
(* Data                                                                    *)
(***************************************************************************)

\* std::string operator< : lexicographic comparison of the characters.
RECURSIVE StrLessFrom(_, _, _)
StrLessFrom(a, b, k) ==
    IF k > Len(b) THEN FALSE
    ELSE IF k > Len(a) THEN TRUE
    ELSE IF a[k] # b[k] THEN a[k] < b[k]
    ELSE StrLessFrom(a, b, k + 1)

StrLess(a, b) == StrLessFrom(a, b, 1)

\* struct ProblemStatus with its default member initialisers.
NewProblemStatus ==
    [ wrong_before |-> 0,
      solved |-> FALSE,
      solved_time |-> -1,
      submissions_after_freeze |-> 0,
      is_frozen |-> FALSE,
      freeze_time |-> -1 ]

\* vector<ProblemStatus>(n): indices 0..n-1.
NewProblems(n) == [i \in 0..(n - 1) |-> NewProblemStatus]

\* Team::Team(name, problem_count)
NewTeam(n, count) ==
    [ name |-> n,
      problems |-> NewProblems(count),
      submissions |-> << >>,
      penalty_time |-> 0,
      solved_count |-> 0 ]

\* SubmissionRecord(p, s, t)
SubmissionRecord(p, s, t) == [problem |-> p, status |-> s, time |-> t]

NumProblems(t) == Cardinality(DOMAIN t.problems)

-----------------------------------------------------------------------------
(***************************************************************************)
(* Team::calculate_ranking and Team::get_solved_times                      *)
(***************************************************************************)

\* The loop of calculate_ranking from index i on, accumulating into acc.
RECURSIVE CalcFrom(_, _, _)
CalcFrom(t, i, acc) ==
    IF i >= NumProblems(t) THEN acc
    ELSE LET status == t.problems[i]
         IN IF status.solved /\ ~status.is_frozen
            THEN CalcFrom(t, i + 1,
                     [ solved_count |-> acc.solved_count + 1,
                       penalty_time |-> acc.penalty_time
                                          + 20 * status.wrong_before
                                          + status.solved_time ])
            ELSE CalcFrom(t, i + 1, acc)

calculate_ranking(t) ==
    LET r == CalcFrom(t, 0, [solved_count |-> 0, penalty_time |-> 0])
    IN [t EXCEPT !.solved_count = r.solved_count,
                 !.penalty_time = r.penalty_time]

\* The push_back loop of get_solved_times from index i on.
RECURSIVE TimesFrom(_, _)
TimesFrom(t, i) ==
    IF i >= NumProblems(t) THEN << >>
    ELSE LET status == t.problems[i]
         IN IF status.solved /\ ~status.is_frozen
            THEN << status.solved_time >> \o TimesFrom(t, i + 1)
            ELSE TimesFrom(t, i + 1)

\* Insert x into a sequence sorted in descending order.
RECURSIVE InsertDesc(_, _)
InsertDesc(s, x) ==
    IF s = << >> THEN << x >>
    ELSE IF x >= Head(s) THEN << x >> \o s
    ELSE << Head(s) >> \o InsertDesc(Tail(s), x)

\* sort(times.rbegin(), times.rend()): descending order.
RECURSIVE SortDesc(_)
SortDesc(s) ==
    IF s = << >> THEN << >>
    ELSE InsertDesc(SortDesc(Tail(s)), Head(s))

get_solved_times(t) == SortDesc(TimesFrom(t, 0))

-----------------------------------------------------------------------------
(***************************************************************************)
(* TeamComparator and the std::set<Team*, TeamComparator> built from       *)
(* team_list.                                                              *)
(***************************************************************************)

Min2(x, y) == IF x < y THEN x ELSE y

\* The element-wise loop over the two descending time vectors; the result
\* is "lt", "gt" when some index differs and "eq" when the loop runs out.
RECURSIVE CompareTimes(_, _, _)
CompareTimes(at, bt, k) ==
    IF k > Min2(Len(at), Len(bt)) THEN "eq"
    ELSE IF at[k] # bt[k]
         THEN (IF at[k] < bt[k] THEN "lt" ELSE "gt")
         ELSE CompareTimes(at, bt, k + 1)

\* TeamComparator::operator()(a, b) on two Team values.
\* A comparator that puts the team with fewer solved problems first.
TeamComparatorFewerFirst(a, b) ==
    IF a.solved_count # b.solved_count
    THEN a.solved_count < b.solved_count
    ELSE IF a.penalty_time # b.penalty_time
    THEN a.penalty_time < b.penalty_time
    ELSE LET c == CompareTimes(get_solved_times(a), get_solved_times(b), 1)
         IN IF c = "lt" THEN TRUE
            ELSE IF c = "gt" THEN FALSE
            ELSE StrLess(a.name, b.name)

\* A comparator without the final tie-break on the name.
TeamComparatorNoNameTieBreak(a, b) ==
    IF a.solved_count # b.solved_count
    THEN a.solved_count > b.solved_count
    ELSE IF a.penalty_time # b.penalty_time
    THEN a.penalty_time < b.penalty_time
    ELSE LET c == CompareTimes(get_solved_times(a), get_solved_times(b), 1)
         IN c = "lt"

TeamComparator(a, b) ==
    IF a.solved_count # b.solved_count
    THEN a.solved_count > b.solved_count
    ELSE IF a.penalty_time # b.penalty_time
    THEN a.penalty_time < b.penalty_time
    ELSE LET c == CompareTimes(get_solved_times(a), get_solved_times(b), 1)
         IN IF c = "lt" THEN TRUE
            ELSE IF c = "gt" THEN FALSE
            ELSE StrLess(a.name, b.name)

\* set::insert of team n into the ordered sequence rk of names: nothing is
\* inserted when an equivalent element is present, otherwise n goes in
\* front of the first element it is ordered before.
RECURSIVE InsertAt(_, _, _)
InsertAt(ts, rk, n) ==
    IF rk = << >> THEN << n >>
    ELSE IF TeamComparator(ts[n], ts[Head(rk)]) THEN << n >> \o rk
    ELSE << Head(rk) >> \o InsertAt(ts, Tail(rk), n)

SetInsert(ts, rk, n) ==
    IF \E k \in 1..Len(rk) :
           /\ ~TeamComparator(ts[n], ts[rk[k]])
           /\ ~TeamComparator(ts[rk[k]], ts[n])
    THEN rk
    ELSE InsertAt(ts, rk, n)

\* for (auto team : team_list) ranking.insert(team);
\* The set after each insert is bound as a value (inserted \in {...}) before
\* the loop goes on, so that it is computed once per iteration.
RECURSIVE BuildRanking(_, _, _)
BuildRanking(ts, list, rk) ==
    IF list = << >> THEN rk
    ELSE CHOOSE result \in
             { BuildRanking(ts, Tail(list), inserted) :
                   inserted \in { SetInsert(ts, rk, Head(list)) } } : TRUE

MakeRanking(ts, list) == BuildRanking(ts, list, << >>)

\* ICPCManagement::update_all_rankings
update_all_rankings(ts) == [n \in DOMAIN ts |-> calculate_ranking(ts[n])]

\* 1-based position of name n in the sequence rk (find + distance + 1);
\* Len(rk) + 1 when absent.
RECURSIVE PosFrom(_, _, _)
PosFrom(rk, n, k) ==
    IF k > Len(rk) THEN k
    ELSE IF rk[k] = n THEN k
    ELSE PosFrom(rk, n, k + 1)

RankIn(rk, n) == PosFrom(rk, n, 1)

-----------------------------------------------------------------------------
(***************************************************************************)
(* Initial state: a freshly constructed ICPCManagement.                    *)
(***************************************************************************)

Init ==
    /\ teams = << >>
    /\ team_list = << >>
    /\ competition_started = FALSE
    /\ competition_ended = FALSE
    /\ problem_count = 0
    /\ is_frozen = FALSE
    /\ scoreboard_flushed = FALSE
    /\ last_flushed_ranking = << >>
    /\ pc = "idle"
    /\ current_ranking = << >>
    /\ changes = << >>
    /\ out = << >>

\* Total number of logged submissions; bounds the model.
RECURSIVE LogTotal(_, _)
LogTotal(ts, list) ==
    IF list = << >> THEN 0
    ELSE Len(ts[Head(list)].submissions) + LogTotal(ts, Tail(list))

-----------------------------------------------------------------------------
(***************************************************************************)
(* ICPCManagement::add_team                                                *)
(***************************************************************************)
\* An add_team without the check of competition_started.
AddTeamAfterStart(n) ==
    /\ pc = "idle"
    /\ out' = << >>
    /\ IF n \in DOMAIN teams
       THEN UNCHANGED contest
       ELSE /\ teams' = [m \in DOMAIN teams \cup {n} |->
                            IF m = n THEN NewTeam(n, problem_count) ELSE teams[m]]
            /\ team_list' = Append(team_list, n)
            /\ UNCHANGED << competition_started, competition_ended,
                            problem_count, is_frozen, scoreboard_flushed,
                            last_flushed_ranking, pc, current_ranking, changes >>

AddTeam(n) ==
    /\ pc = "idle"
    /\ out' = << >>
    /\ IF competition_started
       THEN UNCHANGED contest
       ELSE IF n \in DOMAIN teams
       THEN UNCHANGED contest
       ELSE /\ teams' = [m \in DOMAIN teams \cup {n} |->
                            IF m = n THEN NewTeam(n, problem_count) ELSE teams[m]]
            /\ team_list' = Append(team_list, n)
            /\ UNCHANGED << competition_started, competition_ended,
                            problem_count, is_frozen, scoreboard_flushed,
                            last_flushed_ranking, pc, current_ranking, changes >>

\* vector<ProblemStatus>::resize(n)
Resize(problems, n) ==
    [i \in 0..(n - 1) |->
        IF i \in DOMAIN problems THEN problems[i] ELSE NewProblemStatus]

(***************************************************************************)
(* ICPCManagement::start_competition                                       *)
(***************************************************************************)
Start(count) ==
    /\ pc = "idle"
    /\ out' = << >>
    /\ IF competition_started
       THEN UNCHANGED contest
       ELSE /\ problem_count' = count
            /\ competition_started' = TRUE
            /\ teams' = [n \in DOMAIN teams |->
                            [teams[n] EXCEPT !.problems = Resize(@, count)]]
            /\ UNCHANGED << team_list, competition_ended, is_frozen,
                            scoreboard_flushed, last_flushed_ranking, pc,
                            current_ranking, changes >>

(***************************************************************************)
(* ICPCManagement::submit.  SubmitStatus is what lines 156-169 do to the   *)
(* ProblemStatus of the submitted problem.                                 *)
(***************************************************************************)
\* A submit that applies the verdict also while the contest is frozen.
SubmitStatusIgnoresFreeze(ps, frozen, status, time) ==
    LET counted == IF frozen /\ ~ps.solved
                   THEN [ps EXCEPT !.submissions_after_freeze = @ + 1,
                                   !.is_frozen = TRUE,
                                   !.freeze_time = IF ps.is_frozen THEN @ ELSE time]
                   ELSE ps
    IN IF status = "Accepted" /\ ~ps.solved
       THEN [counted EXCEPT !.solved = TRUE, !.solved_time = time]
       ELSE IF status # "Accepted" /\ ~ps.solved
       THEN [counted EXCEPT !.wrong_before = @ + 1]
       ELSE counted

\* A submit whose Accepted verdict overwrites the time of a problem that is
\* already solved.
SubmitStatusLastAcceptedWins(ps, frozen, status, time) ==
    IF frozen /\ ~ps.solved
    THEN [ps EXCEPT !.submissions_after_freeze = @ + 1,
                    !.is_frozen = TRUE,
                    !.freeze_time = IF ps.is_frozen THEN @ ELSE time]
    ELSE IF ~frozen
    THEN IF status = "Accepted"
         THEN [ps EXCEPT !.solved = TRUE, !.solved_time = time]
         ELSE IF status # "Accepted" /\ ~ps.solved
         THEN [ps EXCEPT !.wrong_before = @ + 1]
         ELSE ps
    ELSE ps

\* A submit that counts a non-accepted verdict also after the problem is
\* solved.
SubmitStatusCountsAfterSolved(ps, frozen, status, time) ==
    IF frozen /\ ~ps.solved
    THEN [ps EXCEPT !.submissions_after_freeze = @ + 1,
                    !.is_frozen = TRUE,
                    !.freeze_time = IF ps.is_frozen THEN @ ELSE time]
    ELSE IF ~frozen
    THEN IF status = "Accepted" /\ ~ps.solved
         THEN [ps EXCEPT !.solved = TRUE, !.solved_time = time]
         ELSE IF status # "Accepted"
         THEN [ps EXCEPT !.wrong_before = @ + 1]
         ELSE ps
    ELSE ps

\* A submit that freezes the problem also when it is already solved.
SubmitStatusFreezesSolved(ps, frozen, status, time) ==
    IF frozen
    THEN [ps EXCEPT !.submissions_after_freeze = @ + 1,
                    !.is_frozen = TRUE,
                    !.freeze_time = IF ps.is_frozen THEN @ ELSE time]
    ELSE IF status = "Accepted" /\ ~ps.solved
         THEN [ps EXCEPT !.solved = TRUE, !.solved_time = time]
         ELSE IF status # "Accepted" /\ ~ps.solved
         THEN [ps EXCEPT !.wrong_before = @ + 1]
         ELSE ps

SubmitStatus(ps, frozen, status, time) ==
    IF frozen /\ ~ps.solved
    THEN [ps EXCEPT !.submissions_after_freeze = @ + 1,
                    !.is_frozen = TRUE,
                    !.freeze_time = IF ps.is_frozen THEN @ ELSE time]
    ELSE IF ~frozen
    THEN IF status = "Accepted" /\ ~ps.solved
         THEN [ps EXCEPT !.solved = TRUE, !.solved_time = time]
         ELSE IF status # "Accepted" /\ ~ps.solved
         THEN [ps EXCEPT !.wrong_before = @ + 1]
         ELSE ps
    ELSE ps

\* prob_index is problem[0] - 'A'; the log keeps the letter, modelled by
\* its index.
Submit(prob_index, n, status, time) ==
    /\ pc = "idle"
    /\ out' = << >>
    /\ IF ~competition_started \/ competition_ended
       THEN UNCHANGED contest
       ELSE IF n \notin DOMAIN teams
       THEN UNCHANGED contest
       ELSE IF prob_index < 0 \/ prob_index >= problem_count
       THEN UNCHANGED contest
       ELSE /\ LogTotal(teams, team_list) < MaxSubs
            /\ teams' = [teams EXCEPT
                 ![n].submissions =
                     Append(@, SubmissionRecord(prob_index, status, time)),
                 ![n].problems[prob_index] =
                     SubmitStatus(@, is_frozen, status, time)]
            /\ UNCHANGED << team_list, competition_started, competition_ended,
                            problem_count, is_frozen, scoreboard_flushed,
                            last_flushed_ranking, pc, current_ranking, changes >>

(***************************************************************************)
(* ICPCManagement::flush_scoreboard                                        *)
(***************************************************************************)
\* A flush that builds the snapshot before it recomputes the derived fields.
FlushSortsStale ==
    /\ pc = "idle"
    /\ out' = << >>
    /\ IF ~competition_started \/ competition_ended
       THEN UNCHANGED contest
       ELSE /\ scoreboard_flushed' = TRUE
            /\ teams' = update_all_rankings(teams)
            /\ last_flushed_ranking' = MakeRanking(teams, team_list)
            /\ UNCHANGED << team_list, competition_started, competition_ended,
                            problem_count, is_frozen, pc, current_ranking,
                            changes >>

Flush ==
    /\ pc = "idle"
    /\ out' = << >>
    /\ IF ~competition_started \/ competition_ended
       THEN UNCHANGED contest
       ELSE /\ scoreboard_flushed' = TRUE
            /\ teams' = update_all_rankings(teams)
            /\ last_flushed_ranking' = MakeRanking(teams', team_list)
            /\ UNCHANGED << team_list, competition_started, competition_ended,
                            problem_count, is_frozen, pc, current_ranking,
                            changes >>

(***************************************************************************)
(* ICPCManagement::freeze_scoreboard: sets the global flag and flushes.    *)
(***************************************************************************)
\* A freeze that also marks every not yet solved problem as frozen.
FreezeMarksAll ==
    /\ pc = "idle"
    /\ out' = << >>
    /\ IF ~competition_started \/ competition_ended
       THEN UNCHANGED contest
       ELSE IF is_frozen
       THEN UNCHANGED contest
       ELSE /\ is_frozen' = TRUE
            /\ scoreboard_flushed' = TRUE
            /\ teams' = update_all_rankings(
                   [n \in DOMAIN teams |->
                       [teams[n] EXCEPT !.problems =
                           [i \in DOMAIN teams[n].problems |->
                               [teams[n].problems[i] EXCEPT !.is_frozen =
                                   ~teams[n].problems[i].solved]]]])
            /\ last_flushed_ranking' = MakeRanking(teams', team_list)
            /\ UNCHANGED << team_list, competition_started, competition_ended,
                            problem_count, pc, current_ranking, changes >>

Freeze ==
    /\ pc = "idle"
    /\ out' = << >>
    /\ IF ~competition_started \/ competition_ended
       THEN UNCHANGED contest
       ELSE IF is_frozen
       THEN UNCHANGED contest
       ELSE /\ is_frozen' = TRUE
            /\ scoreboard_flushed' = TRUE
            /\ teams' = update_all_rankings(teams)
            /\ last_flushed_ranking' = MakeRanking(teams', team_list)
            /\ UNCHANGED << team_list, competition_started, competition_ended,
                            problem_count, pc, current_ranking, changes >>

(***************************************************************************)
(* ICPCManagement::end_competition                                         *)
(***************************************************************************)
End ==
    /\ pc = "idle"
    /\ out' = << >>
    /\ IF ~competition_started \/ competition_ended
       THEN UNCHANGED contest
       ELSE /\ competition_ended' = TRUE
            /\ UNCHANGED << teams, team_list, competition_started,
                            problem_count, is_frozen, scoreboard_flushed,
                            last_flushed_ranking, pc, current_ranking, changes >>

-----------------------------------------------------------------------------
(***************************************************************************)
(* ICPCManagement::scroll_scoreboard                                       *)
(***************************************************************************)

\* Lines 237-243: the smallest index i < count with problems[i].is_frozen,
\* or -1 when the team has none.
RECURSIVE FirstFrozenFrom(_, _, _)
FirstFrozenFrom(t, i, count) ==
    IF i >= count THEN -1
    ELSE IF t.problems[i].is_frozen THEN i
    ELSE FirstFrozenFrom(t, i + 1, count)

\* Lines 235-245: scan ranking_vec from its end (position k) to its front.
\* The result is the target team and problem, team = << >> for nullptr.
RECURSIVE FindTargetFrom(_, _, _, _)
FindTargetFrom(ts, ranking_vec, k, count) ==
    IF k < 1 THEN [team |-> << >>, problem |-> -1]
    ELSE LET i == FirstFrozenFrom(ts[ranking_vec[k]], 0, count)
         IN IF i >= 0 THEN [team |-> ranking_vec[k], problem |-> i]
            ELSE FindTargetFrom(ts, ranking_vec, k - 1, count)

\* A scan that starts at the top of the board instead of its bottom.
RECURSIVE FindTargetTopFrom(_, _, _, _)
FindTargetTopFrom(ts, ranking_vec, k, count) ==
    IF k > Len(ranking_vec) THEN [team |-> << >>, problem |-> -1]
    ELSE LET i == FirstFrozenFrom(ts[ranking_vec[k]], 0, count)
         IN IF i >= 0 THEN [team |-> ranking_vec[k], problem |-> i]
            ELSE FindTargetTopFrom(ts, ranking_vec, k + 1, count)

FindTargetTopFirst(ts, ranking_vec, count) ==
    FindTargetTopFrom(ts, ranking_vec, 1, count)

FindTarget(ts, ranking_vec, count) ==
    FindTargetFrom(ts, ranking_vec, Len(ranking_vec), count)

\* Lines 254-261: the first record of the log, from position k on, for the
\* target problem with status "Accepted"; 0 when there is none.
RECURSIVE FirstAcceptedFrom(_, _, _)
FirstAcceptedFrom(subs, p, k) ==
    IF k > Len(subs) THEN 0
    ELSE IF subs[k].problem = p /\ subs[k].status = "Accepted" THEN k
    ELSE FirstAcceptedFrom(subs, p, k + 1)

\* Lines 249-263 on the target team t and problem p: the team after the
\* reveal and the local solved_during_freeze.
\* A reveal that forgets to clear is_frozen when no Accepted record exists.
RevealKeepsFrozen(t, p) ==
    LET k == FirstAcceptedFrom(t.submissions, p, 1)
    IN [ team |->
           IF k > 0
           THEN [t EXCEPT !.problems[p].solved = TRUE,
                          !.problems[p].solved_time = t.submissions[k].time,
                          !.problems[p].is_frozen = FALSE]
           ELSE t,
         solved_during_freeze |-> (k > 0) ]

\* The last Accepted record of the log for problem p: a scan without the
\* break.
RECURSIVE LastAcceptedFrom(_, _, _)
LastAcceptedFrom(subs, p, k) ==
    IF k < 1 THEN 0
    ELSE IF subs[k].problem = p /\ subs[k].status = "Accepted" THEN k
    ELSE LastAcceptedFrom(subs, p, k - 1)

\* A reveal that takes the time of the last Accepted record.
RevealLastAccepted(t, p) ==
    LET k == LastAcceptedFrom(t.submissions, p, Len(t.submissions))
    IN [ team |->
           IF k > 0
           THEN [t EXCEPT !.problems[p].solved = TRUE,
                          !.problems[p].solved_time = t.submissions[k].time,
                          !.problems[p].is_frozen = FALSE]
           ELSE [t EXCEPT !.problems[p].is_frozen = FALSE],
         solved_during_freeze |-> (k > 0) ]

\* A reveal that only clears is_frozen and never looks at the log.
RevealOnlyUnfreezes(t, p) ==
    [ team |-> [t EXCEPT !.problems[p].is_frozen = FALSE],
      solved_during_freeze |-> FALSE ]

Reveal(t, p) ==
    LET k == FirstAcceptedFrom(t.submissions, p, 1)
    IN [ team |->
           IF k > 0
           THEN [t EXCEPT !.problems[p].solved = TRUE,
                          !.problems[p].solved_time = t.submissions[k].time,
                          !.problems[p].is_frozen = FALSE]
           ELSE [t EXCEPT !.problems[p].is_frozen = FALSE],
         solved_during_freeze |-> (k > 0) ]

\* Lines 280-285: the change records after one reveal.
\* A change record for every reveal that solved the problem, whether or not
\* the rank improved.
RecordChangeAlways(chg, t, ranking_vec, old_rank, new_rank, solved_during_freeze) ==
    IF solved_during_freeze
    THEN Append(chg, [ team1 |-> t.name,
                       team2 |-> ranking_vec[new_rank],
                       solved |-> t.solved_count,
                       penalty |-> t.penalty_time ])
    ELSE chg

\* A change record that names the team right above the revealed team on the
\* standings before the reveal.
RecordChangeNamesNeighbour(chg, t, ranking_vec, old_rank, new_rank, solved_during_freeze) ==
    IF new_rank < old_rank /\ solved_during_freeze
    THEN Append(chg, [ team1 |-> t.name,
                       team2 |-> ranking_vec[old_rank - 1],
                       solved |-> t.solved_count,
                       penalty |-> t.penalty_time ])
    ELSE chg

RecordChange(chg, t, ranking_vec, old_rank, new_rank, solved_during_freeze) ==
    IF new_rank < old_rank /\ solved_during_freeze
    THEN Append(chg, [ team1 |-> t.name,
                       \* ranking_vec[old_rank - 1 - (old_rank - new_rank)],
                       \* 0-based
                       team2 |-> ranking_vec[new_rank],
                       solved |-> t.solved_count,
                       penalty |-> t.penalty_time ])
    ELSE chg

\* Lines 201-224: the guards, the flush and the initial current_ranking.
ScrollBegin ==
    /\ pc = "idle"
    /\ out' = << >>
    /\ IF ~competition_started \/ competition_ended
       THEN UNCHANGED contest
       ELSE IF ~is_frozen
       THEN UNCHANGED contest
       ELSE /\ scoreboard_flushed' = TRUE
            /\ teams' = update_all_rankings(teams)
            /\ last_flushed_ranking' = MakeRanking(teams', team_list)
            /\ current_ranking' = MakeRanking(teams', team_list)
            /\ changes' = << >>
            /\ pc' = "scroll"
            /\ UNCHANGED << team_list, competition_started, competition_ended,
                            problem_count, is_frozen >>

\* Lines 227-288: one iteration of the loop that finds a target.
ScrollReveal ==
    /\ pc = "scroll"
    /\ out' = << >>
    /\ LET ranking_vec == current_ranking
           target == FindTarget(teams, ranking_vec, problem_count)
       IN /\ target.team # << >>
          /\ teams' = update_all_rankings(
                 [teams EXCEPT ![target.team] = Reveal(@, target.problem).team])
          /\ current_ranking' = MakeRanking(teams', team_list)
          /\ changes' =
                 RecordChange(changes, teams'[target.team], ranking_vec,
                     RankIn(ranking_vec, target.team),
                     RankIn(current_ranking', target.team),
                     Reveal(teams[target.team],
                            target.problem).solved_during_freeze)
    /\ UNCHANGED << team_list, competition_started, competition_ended,
                    problem_count, is_frozen, scoreboard_flushed,
                    last_flushed_ranking, pc >>

\* Lines 247 and 290-298: the loop ends when no target is found; the
\* changes and the final scoreboard are printed and the flag is cleared.
ScrollFinish ==
    /\ pc = "scroll"
    /\ out' = << >>
    /\ FindTarget(teams, current_ranking, problem_count).team = << >>
    /\ is_frozen' = FALSE
    /\ pc' = "idle"
    /\ current_ranking' = << >>    \* the locals go out of scope
    /\ changes' = << >>
    /\ UNCHANGED << teams, team_list, competition_started, competition_ended,
                    problem_count, scoreboard_flushed, last_flushed_ranking >>

(***************************************************************************)
(* ICPCManagement::query_ranking and ICPCManagement::query_submission.     *)
(* A line of output is its fixed text and the values printed into it.      *)
(***************************************************************************)
Line(text, args) == [text |-> text, args |-> args]

\* The lambda of line 354 and std::sort with it: the names of a list in
\* ascending order.
RECURSIVE InsertByName(_, _)
InsertByName(s, n) ==
    IF s = << >> THEN << n >>
    ELSE IF StrLess(n, Head(s)) THEN << n >> \o s
    ELSE << Head(s) >> \o InsertByName(Tail(s), n)

RECURSIVE SortByName(_)
SortByName(list) ==
    IF list = << >> THEN << >>
    ELSE InsertByName(SortByName(Tail(list)), Head(list))

\* Lines 343-350 and 358-363: the line that reports the 1-based position of
\* team_name in the sequence rk; nothing is printed when it is not there.
RankLine(rk, team_name) ==
    IF RankIn(rk, team_name) <= Len(rk)
    THEN << Line("NOW AT RANKING", << team_name, RankIn(rk, team_name) >>) >>
    ELSE << >>

\* A query that reports the position in the live standings instead of the
\* position in the last flushed ones.
RankingLinesLive(ts, list, frozen, flushed, flushed_ranking, team_name) ==
    IF team_name \notin DOMAIN ts
    THEN << Line("[Error]Query ranking failed: cannot find the team.", << >>) >>
    ELSE << Line("[Info]Complete query ranking.", << >>) >>
           \o (IF frozen
               THEN << Line("[Warning]Scoreboard is frozen. The ranking may be inaccurate until it were scrolled.", << >>) >>
               ELSE << >>)
           \o (IF flushed
               THEN RankLine(MakeRanking(update_all_rankings(ts), list), team_name)
               ELSE RankLine(SortByName(list), team_name))

\* What query_ranking(team_name) prints in a state with the given members.
RankingLines(ts, list, frozen, flushed, flushed_ranking, team_name) ==
    IF team_name \notin DOMAIN ts
    THEN << Line("[Error]Query ranking failed: cannot find the team.", << >>) >>
    ELSE << Line("[Info]Complete query ranking.", << >>) >>
           \o (IF frozen
               THEN << Line("[Warning]Scoreboard is frozen. The ranking may be inaccurate until it were scrolled.", << >>) >>
               ELSE << >>)
           \o (IF flushed
               THEN RankLine(flushed_ranking, team_name)
               ELSE RankLine(SortByName(list), team_name))

QueryRanking(team_name) ==
    /\ pc = "idle"
    /\ out' = RankingLines(teams, team_list, is_frozen, scoreboard_flushed,
                           last_flushed_ranking, team_name)
    /\ UNCHANGED contest

\* The filters of QUERY_SUBMISSION are strings: "ALL" or, for the problem,
\* the letter of a problem, as character codes like the team names.
AllProblems == << 65, 76, 76 >>

\* string(1, sub.problem): the log's problem index as its letter.
ProblemLetter(prob_index) == << 65 + prob_index >>

\* Lines 381-384: does record sub pass the two filters?
Matches(sub, problem, status) ==
    /\ (problem = AllProblems \/ ProblemLetter(sub.problem) = problem)
    /\ (status = "ALL" \/ sub.status = status)

\* Lines 378-387: the scan of the log from position k on; result is the
\* position of the last record assigned to it so far, 0 for nullptr.
RECURSIVE ScanLog(_, _, _, _, _)
ScanLog(subs, problem, status, k, result) ==
    IF k > Len(subs) THEN result
    ELSE IF Matches(subs[k], problem, status)
    THEN ScanLog(subs, problem, status, k + 1, k)
    ELSE ScanLog(subs, problem, status, k + 1, result)

\* A scan that stops at the first record that passes the filters.
RECURSIVE ScanLogFirst(_, _, _, _, _)
ScanLogFirst(subs, problem, status, k, result) ==
    IF k > Len(subs) THEN result
    ELSE IF Matches(subs[k], problem, status) THEN k
    ELSE ScanLogFirst(subs, problem, status, k + 1, result)

\* A query that reports the first record that passes the filters.
FirstMatch(subs, problem, status) == ScanLogFirst(subs, problem, status, 1, 0)

\* Lines 378-387: the value of result after the loop.
LastMatch(subs, problem, status) == ScanLog(subs, problem, status, 1, 0)

\* What query_submission(team_name, problem, status) prints.
SubmissionLines(ts, team_name, problem, status) ==
    IF team_name \notin DOMAIN ts
    THEN << Line("[Error]Query submission failed: cannot find the team.", << >>) >>
    ELSE LET subs == ts[team_name].submissions
             result == LastMatch(subs, problem, status)
         IN << Line("[Info]Complete query submission.", << >>) >>
              \o (IF result = 0
                  THEN << Line("Cannot find any submission.", << >>) >>
                  ELSE << Line("submission",
                               << team_name, ProblemLetter(subs[result].problem),
                                  subs[result].status, subs[result].time >>) >>)

QuerySubmission(team_name, problem, status) ==
    /\ pc = "idle"
    /\ out' = SubmissionLines(teams, team_name, problem, status)
    /\ UNCHANGED contest

-----------------------------------------------------------------------------
SubmitStep ==
    \E prob_index \in 0..MaxProblems, n \in Names,
       status \in Statuses, time \in Times :
        Submit(prob_index, n, status, time)

Next ==
    \/ \E n \in Names : AddTeam(n)
    \/ \E count \in 1..MaxProblems : Start(count)
    \/ SubmitStep
    \/ Flush
    \/ Freeze
    \/ ScrollBegin
    \/ ScrollReveal
    \/ ScrollFinish
    \/ End

Spec == Init /\ [][Next]_vars

\* The loop of scroll_scoreboard runs to completion once entered: the
\* program is sequential and nothing suspends it.
FairSpec == Spec /\ WF_vars(ScrollReveal) /\ WF_vars(ScrollFinish)

-----------------------------------------------------------------------------
(***************************************************************************)
(* The specification with the two query commands.  Every state has one     *)
(* successor per distinct answer, so it registers at most QryTeams teams.  *)
(***************************************************************************)
QryNames == {AllNames[k] : k \in 1..QryTeams}

ProblemFilters == {AllProblems} \cup {ProblemLetter(i) : i \in 0..MaxProblems}

StatusFilters == {"ALL"} \cup Statuses

QueryRankingStep == \E team_name \in Names : QueryRanking(team_name)

QuerySubmissionStep ==
    \E team_name \in Names, problem \in ProblemFilters, status \in StatusFilters :
        QuerySubmission(team_name, problem, status)

QueryNext ==
    \/ \E n \in QryNames : AddTeam(n)
    \/ \E count \in 1..MaxProblems : Start(count)
    \/ SubmitStep
    \/ Flush
    \/ Freeze
    \/ ScrollBegin
    \/ ScrollReveal
    \/ ScrollFinish
    \/ End
    \/ QueryRankingStep
    \/ QuerySubmissionStep

QuerySpec == Init /\ [][QueryNext]_vars

-----------------------------------------------------------------------------
(***************************************************************************)
(* A specification for the comparator.  Its initial states are the states  *)
(* the program is in after ADDTEAM for CmpTeams teams, START with          *)
(* CmpProblems problems and, for every team and problem in turn, up to     *)
(* CmpMaxWrong non-accepted submissions followed or not by an Accepted     *)
(* one, all before any FLUSH or FREEZE.  A card says what was submitted    *)
(* for one problem; the ProblemStatus and the log are what submit makes of *)
(* these submissions.                                                      *)
(***************************************************************************)
CmpNames == {AllNames[k] : k \in 1..CmpTeams}

CmpCards ==
    {[solved |-> FALSE, time |-> 1, wrong |-> 0]}
      \cup {[solved |-> TRUE, time |-> t, wrong |-> w] :
                t \in 1..CmpMaxTime, w \in 0..CmpMaxWrong}

\* The records submitted for problem i: card.wrong non-accepted ones, then
\* the Accepted one if the card is solved, all at the card's time.
CardLog(card, i) ==
    [k \in 1..card.wrong |-> SubmissionRecord(i, "Wrong_Answer", card.time)]
      \o (IF card.solved
          THEN << SubmissionRecord(i, "Accepted", card.time) >>
          ELSE << >>)

\* submit applied to a ProblemStatus for every record of a log, in order,
\* with the contest not frozen.
RECURSIVE SubmitAll(_, _)
SubmitAll(ps, log) ==
    IF log = << >> THEN ps
    ELSE SubmitAll(SubmitStatus(ps, FALSE, Head(log).status, Head(log).time),
                   Tail(log))

\* The log of a team that submitted its cards problem after problem.
RECURSIVE CardsLog(_, _)
CardsLog(cards, i) ==
    IF i >= CmpProblems THEN << >>
    ELSE CardLog(cards[i], i) \o CardsLog(cards, i + 1)

TeamFromCards(n, cards) ==
    [ NewTeam(n, CmpProblems) EXCEPT
        !.problems = [i \in 0..(CmpProblems - 1) |->
                         SubmitAll(NewProblemStatus, CardLog(cards[i], i))],
        !.submissions = CardsLog(cards, 0) ]

CmpInit ==
    /\ \E cards \in [CmpNames -> [0..(CmpProblems - 1) -> CmpCards]] :
           teams = [n \in CmpNames |-> TeamFromCards(n, cards[n])]
    /\ team_list = [k \in 1..CmpTeams |-> AllNames[k]]
    /\ competition_started = TRUE
    /\ competition_ended = FALSE
    /\ problem_count = CmpProblems
    /\ is_frozen = FALSE
    /\ scoreboard_flushed = FALSE
    /\ last_flushed_ranking = << >>
    /\ pc = "idle"
    /\ current_ranking = << >>
    /\ changes = << >>
    /\ out = << >>

CmpNext == Flush

CmpSpec == CmpInit /\ [][CmpNext]_vars

-----------------------------------------------------------------------------
(***************************************************************************)
(* Vocabulary of the properties.  These are stated from the state alone,  *)
(* not from the locals of scroll_scoreboard.                               *)
(***************************************************************************)

Registered == DOMAIN teams

ProblemsOf(ts, n) == DOMAIN ts[n].problems

HasFrozen(ts, n) == \E i \in ProblemsOf(ts, n) : ts[n].problems[i].is_frozen

FrozenPairs(ts) ==
    {<<n, i>> \in (DOMAIN ts) \X (0..(MaxProblems + 1)) :
        i \in ProblemsOf(ts, n) /\ ts[n].problems[i].is_frozen}

\* The (team, problem) pairs a step reveals: frozen before, not after.
RevealedPairs == FrozenPairs(teams) \ FrozenPairs(teams')

\* n is ordered before m on the standings recomputed from ts.
RankedBefore(ts, n, m) ==
    TeamComparator(calculate_ranking(ts[n]), calculate_ranking(ts[m]))

\* 1-based rank of n on the standings recomputed from ts.
RankOf(ts, n) ==
    1 + Cardinality({m \in DOMAIN ts : m # n /\ RankedBefore(ts, m, n)})

\* One iteration of the reveal loop.
RevealStep == pc = "scroll" /\ pc' = "scroll"

\* Positions of the Accepted records of problem i in a log.
AcceptedAt(subs, i) ==
    {k \in 1..Len(subs) : subs[k].problem = i /\ subs[k].status = "Accepted"}

\* Number of non-accepted records of problem i among the first k of a log.
WrongUpTo(subs, i, k) ==
    Cardinality({j \in 1..k : subs[j].problem = i /\ subs[j].status # "Accepted"})

SetMin(S) == CHOOSE x \in S : \A y \in S : x <= y

-----------------------------------------------------------------------------
\* C1: every reveal step of SCROLL reveals a problem of the lowest-ranked
\* team that has a frozen problem, on the standings recomputed from the
\* state the step starts in, and of that team the frozen problem with the
\* smallest index.
C1_RevealLowestTeamFirst ==
    [][RevealStep =>
         \A pr \in RevealedPairs :
            /\ \A j \in 0..(pr[2] - 1) : ~teams[pr[1]].problems[j].is_frozen
            /\ \A m \in Registered \ {pr[1]} :
                   HasFrozen(teams, m) => RankedBefore(teams, m, pr[1])]_vars

\* Witness of C1: inside the loop a reveal has already reordered the board
\* and a team with a frozen problem is still to be revealed.
C1_Witness ==
    /\ pc = "scroll"
    /\ current_ranking # last_flushed_ranking
    /\ \E n \in Registered : HasFrozen(teams, n)

\* C2: a SCROLL that has entered its loop leaves it after finitely many
\* reveal steps; every reveal step clears exactly one frozen ProblemStatus;
\* when the loop is left no ProblemStatus is frozen and the global freeze
\* flag is cleared.
C2_ScrollTerminates ==
    /\ [][RevealStep =>
            /\ Cardinality(RevealedPairs) = 1
            /\ FrozenPairs(teams') \subseteq FrozenPairs(teams)]_vars
    /\ [][(pc = "scroll" /\ pc' = "idle") =>
            (FrozenPairs(teams') = {} /\ ~is_frozen')]_vars
    /\ (pc = "scroll") ~> (pc = "idle" /\ ~is_frozen /\ FrozenPairs(teams) = {})

\* Witness of C2: a scroll has finished after revealing a problem that
\* received a submission during the freeze.
C2_Witness ==
    /\ pc = "idle"
    /\ competition_started /\ ~is_frozen
    /\ \E n \in Registered : \E i \in ProblemsOf(teams, n) :
           teams[n].problems[i].submissions_after_freeze > 0

\* A step in which a FREEZE command takes effect.
FreezeStep == ~is_frozen /\ is_frozen'

\* A step in which the contest is frozen before and after and in which
\* pair pr becomes frozen.
BecomesFrozen(pr) ==
    /\ pr \notin FrozenPairs(teams)
    /\ pr \in FrozenPairs(teams')

\* C3 as stated: immediately after a successful FREEZE the global flag is
\* set, every problem not yet solved has is_frozen = TRUE and every solved
\* problem has is_frozen = FALSE.
C3_FreezeMarksUnsolved ==
    [][FreezeStep =>
         /\ is_frozen'
         /\ \A n \in Registered : \A i \in ProblemsOf(teams, n) :
                teams'[n].problems[i].is_frozen
                    = ~teams'[n].problems[i].solved]_vars

\* C3 amended: immediately after a successful FREEZE the global flag is set
\* and no ProblemStatus, solved or not, has is_frozen = TRUE; a
\* ProblemStatus gets is_frozen = TRUE only in a step that appends, while
\* the contest is frozen, a submission for that not yet solved problem to
\* the team's log.
C3_FreezeMarksOnSubmit ==
    /\ [][FreezeStep => (is_frozen' /\ FrozenPairs(teams') = {})]_vars
    /\ [][\A n \in Registered : \A i \in ProblemsOf(teams, n) :
            BecomesFrozen(<<n, i>>) =>
                /\ is_frozen /\ is_frozen'
                /\ ~teams[n].problems[i].solved
                /\ Len(teams'[n].submissions) = Len(teams[n].submissions) + 1
                /\ teams'[n].submissions[Len(teams'[n].submissions)].problem = i
         ]_vars

\* Witness of C3: the contest is frozen, a team has a solved and an unsolved
\* problem, a problem of some team was frozen by a submission, and the
\* unsolved problem without a submission since the freeze is not frozen.
C3_Witness ==
    /\ is_frozen /\ pc = "idle"
    /\ \E n \in Registered : \E i, j \in ProblemsOf(teams, n) :
           /\ teams[n].problems[i].solved
           /\ ~teams[n].problems[j].solved
           /\ ~teams[n].problems[j].is_frozen
    /\ FrozenPairs(teams) # {}

\* The fields of every ProblemStatus that decide the standings.
Scores(ts) ==
    [n \in DOMAIN ts |->
        [i \in ProblemsOf(ts, n) |->
            << ts[n].problems[i].solved,
               ts[n].problems[i].solved_time,
               ts[n].problems[i].wrong_before >>]]

\* solved_count and penalty_time of every team, recomputed from ts.
Recomputed(ts) ==
    [n \in DOMAIN ts |->
        << calculate_ranking(ts[n]).solved_count,
           calculate_ranking(ts[n]).penalty_time >>]

\* The standings order recomputed from ts, as a relation on the teams.
StandingsRelation(ts) ==
    {<<n, m>> \in (DOMAIN ts) \X (DOMAIN ts) : RankedBefore(ts, n, m)}

\* C4: while the contest is frozen and no scroll is running, no command
\* changes solved, solved_time or wrong_before of any ProblemStatus, nor the
\* recomputed solved_count, penalty_time and standings order; a SUBMIT for a
\* not yet solved problem appends its record to the team's log, adds one to
\* the problem's submissions_after_freeze and leaves the problem frozen
\* (besides the problem's freeze_time it changes nothing else).
C4_FrozenSubmitDeferred ==
    [][(is_frozen /\ pc = "idle" /\ pc' = "idle" /\ teams' # teams) =>
         /\ Scores(teams') = Scores(teams)
         /\ Recomputed(teams') = Recomputed(teams)
         /\ StandingsRelation(teams') = StandingsRelation(teams)
         /\ \A prob_index \in 0..MaxProblems, n \in Names,
               status \in Statuses, time \in Times :
              ( /\ n \in Registered
                /\ prob_index \in ProblemsOf(teams, n)
                /\ ~teams[n].problems[prob_index].solved
                /\ Submit(prob_index, n, status, time) )
              => /\ teams' = [teams EXCEPT
                       ![n].submissions =
                           Append(@, SubmissionRecord(prob_index, status, time)),
                       ![n].problems[prob_index].submissions_after_freeze = @ + 1,
                       ![n].problems[prob_index].is_frozen = TRUE,
                       ![n].problems[prob_index].freeze_time =
                           teams'[n].problems[prob_index].freeze_time]
                 /\ UNCHANGED << team_list, competition_started,
                                 competition_ended, problem_count, is_frozen,
                                 scoreboard_flushed, last_flushed_ranking, pc,
                                 current_ranking, changes >>]_vars

\* Witness of C4: the contest is frozen and a team's frozen, unsolved
\* problem has an Accepted record in the log.
C4_Witness ==
    /\ is_frozen /\ pc = "idle"
    /\ \E n \in Registered : \E i \in ProblemsOf(teams, n) :
           /\ teams[n].problems[i].is_frozen
           /\ ~teams[n].problems[i].solved
           /\ teams[n].problems[i].submissions_after_freeze = 1
           /\ AcceptedAt(teams[n].submissions, i) # {}

\* The penalty the log prescribes for the problems 0..i-1 of team t that
\* count (solved and not frozen): 20 for every non-accepted record of the
\* problem before its first Accepted record, plus that record's time.
RECURSIVE PenaltyFromLog(_, _)
PenaltyFromLog(t, i) ==
    IF i = 0 THEN 0
    ELSE LET ps == t.problems[i - 1]
             acc == AcceptedAt(t.submissions, i - 1)
         IN IF ps.solved /\ ~ps.is_frozen /\ acc # {}
            THEN PenaltyFromLog(t, i - 1)
                   + 20 * WrongUpTo(t.submissions, i - 1, SetMin(acc) - 1)
                   + t.submissions[SetMin(acc)].time
            ELSE PenaltyFromLog(t, i - 1)

\* C5: whenever the derived fields are recomputed, a team's penalty_time is
\* the sum, over its solved and not frozen problems, of 20 times the number
\* of non-accepted submissions of the log that precede the solving Accepted
\* submission, plus that submission's time.
C5_PenaltyCountsAllWrongAttempts ==
    \A n \in Registered :
        calculate_ranking(teams[n]).penalty_time
            = PenaltyFromLog(teams[n], NumProblems(teams[n]))

\* The timestamps of the Accepted records of problem i in a log.
AcceptedTimes(subs, i) == {subs[k].time : k \in AcceptedAt(subs, i)}

\* The log's timestamps never decrease.
TimeOrdered(subs) ==
    \A j, k \in 1..Len(subs) : j < k => subs[j].time <= subs[k].time

\* C6 as stated: a reveal step that reveals a problem with an Accepted
\* record in the team's log makes it solved, with solved_time the minimum
\* timestamp of the team's Accepted records for it, and clears is_frozen.
C6_RevealUsesMinimumTime ==
    [][RevealStep =>
         \A pr \in RevealedPairs :
            AcceptedAt(teams[pr[1]].submissions, pr[2]) # {} =>
               /\ teams'[pr[1]].problems[pr[2]].solved
               /\ teams'[pr[1]].problems[pr[2]].solved_time
                      = SetMin(AcceptedTimes(teams[pr[1]].submissions, pr[2]))
               /\ ~teams'[pr[1]].problems[pr[2]].is_frozen]_vars

\* C6 amended: a reveal step that reveals a problem with an Accepted record
\* in the team's log makes it solved, with solved_time the timestamp of the
\* first Accepted record for it in log order, and clears is_frozen; that
\* timestamp is the minimum one whenever the log's timestamps never
\* decrease.
C6_RevealUsesFirstAccepted ==
    [][RevealStep =>
         \A pr \in RevealedPairs :
            LET subs == teams[pr[1]].submissions
                acc == AcceptedAt(subs, pr[2])
                after == teams'[pr[1]].problems[pr[2]]
            IN acc # {} =>
                 /\ after.solved
                 /\ after.solved_time = subs[SetMin(acc)].time
                 /\ ~after.is_frozen
                 /\ TimeOrdered(subs) =>
                        after.solved_time = SetMin(AcceptedTimes(subs, pr[2]))
      ]_vars

\* Witness of C6: inside the scroll loop a revealed problem is solved and the
\* team's log holds two Accepted records for it with different timestamps.
C6_Witness ==
    /\ pc = "scroll"
    /\ \E n \in Registered : \E i \in ProblemsOf(teams, n) :
           /\ teams[n].problems[i].solved
           /\ ~teams[n].problems[i].is_frozen
           /\ teams[n].problems[i].submissions_after_freeze = 2
           /\ Cardinality(AcceptedTimes(teams[n].submissions, i)) = 2

\* C7: a reveal step that reveals a problem without an Accepted record in
\* the team's log leaves it unsolved, clears is_frozen, and leaves
\* wrong_before equal to the number of all non-accepted records of the
\* problem in the team's log.
C7_RevealCountsAllWrongAttempts ==
    [][RevealStep =>
         \A pr \in RevealedPairs :
            LET subs == teams[pr[1]].submissions
                after == teams'[pr[1]].problems[pr[2]]
            IN AcceptedAt(subs, pr[2]) = {} =>
                 /\ ~after.solved
                 /\ ~after.is_frozen
                 /\ after.wrong_before = WrongUpTo(subs, pr[2], Len(subs))
      ]_vars

\* The teams with a problem that was revealed as solved: it is solved and
\* received submissions during a freeze.
SolvedByReveal(ts) ==
    {n \in DOMAIN ts : \E i \in ProblemsOf(ts, n) :
        /\ ts[n].problems[i].solved
        /\ ts[n].problems[i].submissions_after_freeze > 0}

\* C8: a reveal step appends a change event exactly when the revealed
\* team's rank on the standings recomputed after the reveal is smaller than
\* its rank on the standings before it; the event names the revealed team
\* and carries its recomputed solved_count and penalty_time; the events
\* recorded before stay in place, in their order.
C8_ChangeEventIffRankImproves ==
    [][RevealStep =>
         \A pr \in RevealedPairs :
            IF RankOf(teams', pr[1]) < RankOf(teams, pr[1])
            THEN /\ Len(changes') = Len(changes) + 1
                 /\ SubSeq(changes', 1, Len(changes)) = changes
                 /\ changes'[Len(changes')].team1 = pr[1]
                 /\ changes'[Len(changes')].solved
                        = calculate_ranking(teams'[pr[1]]).solved_count
                 /\ changes'[Len(changes')].penalty
                        = calculate_ranking(teams'[pr[1]]).penalty_time
            ELSE changes' = changes]_vars

\* Witness of C8: inside the scroll loop two teams had a problem revealed as
\* solved and only one of the two reveals recorded an event.
C8_Witness ==
    /\ pc = "scroll"
    /\ Len(changes) = 1
    /\ Cardinality(SolvedByReveal(teams)) = 2

\* C9: in a reveal step the revealed team's rank on the standings recomputed
\* after the reveal is never larger than its rank on the standings before
\* it.
C9_RevealNeverWorsensRank ==
    [][RevealStep =>
         \A pr \in RevealedPairs :
            RankOf(teams', pr[1]) <= RankOf(teams, pr[1])]_vars

\* Witness of C9: inside the scroll loop one reveal has improved a team's
\* rank and another reveal left its problem unsolved.
C9_Witness ==
    /\ pc = "scroll"
    /\ changes # << >>
    /\ \E n \in Registered : \E i \in ProblemsOf(teams, n) :
           /\ ~teams[n].problems[i].solved
           /\ ~teams[n].problems[i].is_frozen
           /\ teams[n].problems[i].submissions_after_freeze > 0

\* The derived fields of every team are freshly recomputed.
Fresh(ts) == \A n \in DOMAIN ts : ts[n] = calculate_ranking(ts[n])

\* The comparator on the teams n and m of ts.
Before(ts, n, m) == TeamComparator(ts[n], ts[m])

\* C10: on every state whose derived fields are freshly recomputed, the
\* comparator is a strict total order over the teams: irreflexive,
\* antisymmetric, transitive, and of two distinct teams exactly one is
\* ordered before the other.
C10_ComparatorStrictTotalOrder ==
    Fresh(teams) =>
        /\ \A n \in Registered : ~Before(teams, n, n)
        /\ \A n, m \in Registered :
               /\ ~(Before(teams, n, m) /\ Before(teams, m, n))
               /\ n # m => (Before(teams, n, m) \/ Before(teams, m, n))
        /\ \A n, m, k \in Registered :
               (Before(teams, n, m) /\ Before(teams, m, k))
                   => Before(teams, n, k)

\* Witness of C10: after a flush, two teams have the same solved_count and
\* penalty_time and the comparator orders them by their solved times.
C10_Witness ==
    /\ scoreboard_flushed
    /\ Fresh(teams)
    /\ \E n, m \in Registered :
           /\ n # m
           /\ teams[n].solved_count = teams[m].solved_count
           /\ teams[n].penalty_time = teams[m].penalty_time
           /\ get_solved_times(teams[n]) # get_solved_times(teams[m])
           /\ StrLess(teams[m].name, teams[n].name)
           /\ TeamComparator(teams[n], teams[m])


\* C11: in every reachable state every team's penalty_time, stored and
\* recomputed, is at least 0, and no step of any command (ADDTEAM, START,
\* SUBMIT, FLUSH, FREEZE, END, and SCROLL with each of its reveal steps)
\* makes the stored or the recomputed penalty_time of a team smaller.
C11_PenaltyNeverDecreases ==
    /\ [](\A n \in Registered :
            /\ teams[n].penalty_time >= 0
            /\ calculate_ranking(teams[n]).penalty_time >= 0)
    /\ [][\A n \in Registered :
            /\ teams'[n].penalty_time >= teams[n].penalty_time
            /\ calculate_ranking(teams'[n]).penalty_time
                   >= calculate_ranking(teams[n]).penalty_time]_vars

\* Witness of C11: a team's stored penalty_time is the sum of the times of
\* two solved problems, one solved by a submission outside a freeze and one
\* by a reveal.
C11_Witness ==
    /\ pc = "idle"
    /\ \E n \in Registered : \E i, j \in ProblemsOf(teams, n) :
           /\ teams[n].problems[i].solved
           /\ teams[n].problems[i].submissions_after_freeze = 0
           /\ teams[n].problems[j].solved
           /\ teams[n].problems[j].submissions_after_freeze > 0
           /\ teams[n].penalty_time = teams[n].problems[i].solved_time
                                        + teams[n].problems[j].solved_time

\* C12: for every team and problem, no step changes the ProblemStatus of a
\* problem that is solved (it stays solved, with the same solved_time and
\* wrong_before: later submissions for it are only logged), and no step
\* makes the wrong_before of any problem smaller.
C12_SolvedIsIrreversible ==
    [][\A n \in Registered : \A i \in ProblemsOf(teams, n) :
         /\ teams[n].problems[i].solved =>
                teams'[n].problems[i] = teams[n].problems[i]
         /\ teams'[n].problems[i].wrong_before
                >= teams[n].problems[i].wrong_before]_vars

\* Witness of C12: a problem solved by the first record of the team's log,
\* whose second record is a later submission for the same problem with
\* another time; solved_time is the first record's and wrong_before is 0.
C12_Witness ==
    \E n \in Registered : \E i \in ProblemsOf(teams, n) :
        /\ teams[n].problems[i].solved
        /\ Len(teams[n].submissions) = 2
        /\ teams[n].submissions[1].problem = i
        /\ teams[n].submissions[1].status = "Accepted"
        /\ teams[n].submissions[2].problem = i
        /\ teams[n].submissions[2].time # teams[n].submissions[1].time
        /\ teams[n].problems[i].solved_time = teams[n].submissions[1].time
        /\ teams[n].problems[i].wrong_before = 0

\* The submission logs of all teams.
Logs(ts) == [n \in DOMAIN ts |-> ts[n].submissions]

\* C13: a command issued in an invalid state changes nothing of the contest
\* state (teams with every ProblemStatus and log, flags, problem count,
\* standings snapshot): ADDTEAM once started or for a registered name, START
\* once started, FREEZE while frozen, SCROLL while not frozen, SUBMIT before
\* START, after END, for an unregistered team or for a problem index outside
\* 0..problem_count-1.  No step adds a team once the contest has started and
\* no step changes a log once it has ended.
C13_InvalidCommandChangesNothing ==
    [][(contest' # contest) =>
         /\ \A n \in Names :
                (competition_started \/ n \in Registered) => ~AddTeam(n)
         /\ \A count \in 1..MaxProblems :
                competition_started => ~Start(count)
         /\ is_frozen => ~Freeze
         /\ ~is_frozen => ~ScrollBegin
         /\ \A prob_index \in 0..MaxProblems, n \in Names,
               status \in Statuses, time \in Times :
                ( \/ ~competition_started
                  \/ competition_ended
                  \/ n \notin Registered
                  \/ prob_index \notin 0..(problem_count - 1) )
                    => ~Submit(prob_index, n, status, time)
         /\ competition_started =>
                (DOMAIN teams' = DOMAIN teams /\ team_list' = team_list)
         /\ competition_ended => Logs(teams') = Logs(teams)]_vars

\* Witness of C13: a started, frozen contest with a logged submission, a
\* frozen problem, a name that is not registered and fewer than MaxProblems
\* problems: ADDTEAM, START, FREEZE, SUBMIT for the unregistered name and
\* SUBMIT for the problem index problem_count are all invalid here.
C13_Witness ==
    /\ pc = "idle"
    /\ competition_started /\ ~competition_ended /\ is_frozen
    /\ Registered # {} /\ Registered # Names
    /\ problem_count < MaxProblems
    /\ FrozenPairs(teams) # {}

\* out is the answer of a QUERY_RANKING for a registered team.
IsRankingAnswer(o) ==
    Len(o) >= 1 /\ o[1].text = "[Info]Complete query ranking."

WarningText ==
    "[Warning]Scoreboard is frozen. The ranking may be inaccurate until it were scrolled."

\* The answer has a line with the warning.
HasWarning(o) == \E k \in 1..Len(o) : o[k].text = WarningText

\* rk lists every team of ts once, each before the teams it is ordered
\* before on the standings recomputed from ts.
IsStandings(ts, rk) ==
    /\ Len(rk) = Cardinality(DOMAIN ts)
    /\ \A n \in DOMAIN ts : \E k \in 1..Len(rk) : rk[k] = n
    /\ \A j, k \in 1..Len(rk) : j < k => RankedBefore(ts, rk[j], rk[k])

\* The contest is running: started and not ended.
Active == competition_started /\ ~competition_ended

\* 1-based position of n in the alphabetical order of the registered names.
AlphabeticalRank(n) == 1 + Cardinality({m \in Registered : StrLess(m, n)})

\* C14: the answer of QUERY_RANKING for a registered team ends with one line
\* that reports, once a snapshot was taken, the team's 1-based position in
\* the snapshot and otherwise its 1-based position in the alphabetical order
\* of the registered names, and it has the warning exactly when the contest
\* is frozen.  The snapshot is the standings order of the most recent FLUSH
\* or FREEZE: a FLUSH or FREEZE that takes effect leaves the standings
\* recomputed from its result as the snapshot, and no step of another
\* command (SUBMIT in particular) changes the snapshot or whether one was
\* taken.
C14_QueryRankingReportsSnapshot ==
    /\ [](IsRankingAnswer(out) =>
            LET last == out[Len(out)]
            IN /\ last.text = "NOW AT RANKING"
               /\ last.args[1] \in Registered
               /\ last.args[2] =
                      IF scoreboard_flushed
                      THEN RankIn(last_flushed_ranking, last.args[1])
                      ELSE AlphabeticalRank(last.args[1])
               /\ last.args[2] \in 1..Cardinality(Registered)
               /\ Len(out) = (IF is_frozen THEN 3 ELSE 2)
               /\ HasWarning(out) = is_frozen)
    /\ [][(Active /\ (Flush \/ (Freeze /\ ~is_frozen))) =>
              (scoreboard_flushed' /\ IsStandings(teams', last_flushed_ranking'))
         ]_vars
    /\ [][( \/ last_flushed_ranking' # last_flushed_ranking
            \/ scoreboard_flushed' # scoreboard_flushed ) =>
              (Flush \/ Freeze)]_vars

\* Witness of C14: a QUERY_RANKING was answered from a snapshot with a rank
\* that is not the team's rank on the standings recomputed from the state,
\* which a SUBMIT after the snapshot has changed.
C14_Witness ==
    /\ IsRankingAnswer(out)
    /\ scoreboard_flushed /\ ~is_frozen
    /\ out[Len(out)].args[2] # RankOf(teams, out[Len(out)].args[1])
    /\ out[Len(out)].args[2] # AlphabeticalRank(out[Len(out)].args[1])

\* out is the answer of a QUERY_SUBMISSION for a registered team.
IsSubmissionAnswer(o) ==
    Len(o) >= 1 /\ o[1].text = "[Info]Complete query submission."

\* The positions of the records of a log that a problem filter and a verdict
\* filter let through.
MatchingAt(subs, problem, status) ==
    {k \in 1..Len(subs) :
        /\ (problem = AllProblems \/ problem = << 65 + subs[k].problem >>)
        /\ (status = "ALL" \/ status = subs[k].status)}

SetMax(S) == CHOOSE x \in S : \A y \in S : x >= y

\* The answer the claim prescribes for a query of a registered team.
LastMatchAnswer(ts, team_name, problem, status) ==
    LET subs == ts[team_name].submissions
        matching == MatchingAt(subs, problem, status)
    IN IF matching = {}
       THEN << Line("[Info]Complete query submission.", << >>),
               Line("Cannot find any submission.", << >>) >>
       ELSE << Line("[Info]Complete query submission.", << >>),
               Line("submission",
                    << team_name,
                       << 65 + subs[SetMax(matching)].problem >>,
                       subs[SetMax(matching)].status,
                       subs[SetMax(matching)].time >>) >>

\* C15: in every reachable state, what QUERY_SUBMISSION prints for a
\* registered team and any two filters is the not-found line exactly when no
\* record of the team's log passes both filters (a filter ALL lets every
\* value through), and otherwise the team, problem, verdict and time of the
\* record at the highest position of the log among those that pass; every
\* answer printed is this answer for the state it was asked in, and the step
\* that prints it changes nothing of the contest state.
C15_QuerySubmissionReportsLastMatch ==
    /\ [](\A team_name \in Registered, problem \in ProblemFilters,
             status \in StatusFilters :
              SubmissionLines(teams, team_name, problem, status)
                  = LastMatchAnswer(teams, team_name, problem, status))
    /\ [](IsSubmissionAnswer(out) =>
             \E team_name \in Registered, problem \in ProblemFilters,
                status \in StatusFilters :
                 out = LastMatchAnswer(teams, team_name, problem, status))
    /\ [][IsSubmissionAnswer(out') => UNCHANGED contest]_vars

\* Witness of C15: the answer of a QUERY_SUBMISSION reports the second
\* record of a team's log, and the first record of that log has the same
\* problem and verdict and another time, so it passes the same filters.
C15_Witness ==
    /\ IsSubmissionAnswer(out)
    /\ Len(out) = 2 /\ out[2].text = "submission"
    /\ LET subs == teams[out[2].args[1]].submissions
       IN /\ Len(subs) = 2
          /\ subs[1].problem = subs[2].problem
          /\ subs[1].status = subs[2].status
          /\ subs[1].time # subs[2].time
          /\ out[2].args[4] = subs[2].time

\* The state a FLUSH leaves: a snapshot was taken, the derived fields of
\* every team are the recomputed ones and the snapshot is the standings
\* recomputed from the state.
FlushedState(ts, flushed, flushed_ranking) ==
    /\ flushed
    /\ Fresh(ts)
    /\ IsStandings(ts, flushed_ranking)

JustFlushed ==
    FlushedState(teams, scoreboard_flushed, last_flushed_ranking)

\* A step of FLUSH in a running contest.  The first conjuncts follow from
\* Flush; they are decided before the standings are recomputed.
FlushStep ==
    /\ Active
    /\ pc = "idle" /\ pc' = "idle"
    /\ scoreboard_flushed'
    /\ is_frozen' = is_frozen
    /\ competition_ended' = competition_ended
    /\ Logs(teams') = Logs(teams)
    /\ Flush

\* C16: in a running contest a FLUSH leaves a state in which a second FLUSH,
\* issued before any other event, changes nothing: the snapshot has the same
\* team order, every team the same solved_count and penalty_time, and no
\* ProblemStatus and no log changes.
C16_FlushIsIdempotent ==
    [][FlushStep =>
         /\ FlushedState(teams', scoreboard_flushed', last_flushed_ranking')
         /\ JustFlushed =>
                /\ last_flushed_ranking' = last_flushed_ranking
                /\ teams' = teams
                /\ UNCHANGED contest]_vars

\* Witness of C16: after a FLUSH of a running contest the snapshot is
\* neither in registration order nor in its reverse, and a team has a
\* positive penalty_time.
C16_Witness ==
    /\ pc = "idle" /\ Active /\ JustFlushed
    /\ last_flushed_ranking # team_list
    /\ Len(team_list) = 3
    /\ last_flushed_ranking # << team_list[3], team_list[2], team_list[1] >>
    /\ \E n \in Registered : teams[n].penalty_time > 0

\* C17: in the state a SCROLL leaves when it completes, QUERY_RANKING for
\* every registered team reports the team's 1-based position on the final
\* scoreboard of that SCROLL, the standings after all its reveals.
C17_QueryRankingAfterScroll ==
    [][(pc = "scroll" /\ pc' = "idle") =>
         \A n \in Registered :
            LET answer == RankingLines(teams', team_list', is_frozen',
                                       scoreboard_flushed',
                                       last_flushed_ranking', n)
            IN answer[Len(answer)]
                   = Line("NOW AT RANKING", << n, RankIn(current_ranking, n) >>)
      ]_vars

\* C18: in a reveal step that records a change event, any two teams other
\* than the revealed one are ordered on the standings after the reveal as
\* they were before it, and the team the event names as passed held before
\* the reveal the rank the revealed team holds after it and is ranked right
\* below the revealed team after the reveal.
C18_PassedTeamIsRightBelow ==
    [][(RevealStep /\ Len(changes') > Len(changes)) =>
         LET event == changes'[Len(changes')]
             revealed == event.team1
             passed == event.team2
         IN /\ revealed \in Registered
            /\ passed \in Registered \ {revealed}
            /\ \A n, m \in Registered \ {revealed} :
                   RankedBefore(teams', n, m) = RankedBefore(teams, n, m)
            /\ RankOf(teams, passed) = RankOf(teams', revealed)
            /\ RankOf(teams', passed) = RankOf(teams', revealed) + 1]_vars

\* Witness of C18: inside the scroll loop the one change event recorded is
\* of a team that was third before the scroll and is first now, right above
\* the team the event names as passed.
C18_Witness ==
    /\ pc = "scroll"
    /\ Len(changes) = 1
    /\ Len(current_ranking) = 3
    /\ last_flushed_ranking[3] = changes[1].team1
    /\ current_ranking[1] = changes[1].team1
    /\ current_ranking[2] = changes[1].team2

\* C19: in every reachable state, between commands and inside a SCROLL, no
\* ProblemStatus is both solved and frozen, and a ProblemStatus is frozen
\* only while the global freeze flag is set.
C19_FrozenOnlyUnsolvedWhileFrozen ==
    \A n \in Registered : \A i \in ProblemsOf(teams, n) :
        /\ ~(teams[n].problems[i].solved /\ teams[n].problems[i].is_frozen)
        /\ teams[n].problems[i].is_frozen => is_frozen

\* Witness of C19: between commands of a second freeze, a problem is frozen
\* while a problem of another team, frozen by its only submission during an
\* earlier freeze, has been revealed as solved.
C19_Witness ==
    /\ pc = "idle" /\ is_frozen
    /\ FrozenPairs(teams) # {}
    /\ \E n \in Registered : \E i \in ProblemsOf(teams, n) :
           /\ teams[n].problems[i].solved
           /\ ~teams[n].problems[i].is_frozen
           /\ teams[n].problems[i].submissions_after_freeze = 1
           /\ Len(teams[n].submissions) = 1

\* C20: in every state between commands in which the contest is not frozen,
\* a problem of a team is solved exactly when the team's log holds an
\* Accepted record for it; in every state, a solved problem has the
\* timestamp of the first Accepted record for it in the team's log as its
\* solved_time.
C20_SolvedAgreesWithLog ==
    /\ (pc = "idle" /\ ~is_frozen) =>
           \A n \in Registered : \A i \in ProblemsOf(teams, n) :
               teams[n].problems[i].solved
                   = (AcceptedAt(teams[n].submissions, i) # {})
    /\ \A n \in Registered : \A i \in ProblemsOf(teams, n) :
           teams[n].problems[i].solved =>
               /\ AcceptedAt(teams[n].submissions, i) # {}
               /\ teams[n].problems[i].solved_time =
                      teams[n].submissions[
                          SetMin(AcceptedAt(teams[n].submissions, i))].time

\* Witness of C20: between commands of a contest that is not frozen, a
\* problem revealed as solved has two Accepted records with different times
\* in the team's log.
C20_Witness ==
    /\ pc = "idle" /\ ~is_frozen
    /\ \E n \in Registered : \E i \in ProblemsOf(teams, n) :
           /\ teams[n].problems[i].solved
           /\ teams[n].problems[i].submissions_after_freeze = 2
           /\ Cardinality(AcceptedTimes(teams[n].submissions, i)) = 2
=============================================================================
